---- MODULE Spec2Model ----
(***************************************************************************)
(* Model of the EACC agent framework: the AgentManager's two polling       *)
(* loops (monitorNewJobs / processActiveJobs), the EACCConnector's ledger  *)
(* transactions (applyForJob, takeJob, deliverResult), the BaseAgent's     *)
(* activeJobs map, and Encryption.getFromIpfs' gateway fallback loop.      *)
(*                                                                         *)
(* Node's event loop runs one callback at a time; an async function gives  *)
(* up control at every await.  Each action below is the synchronous run of *)
(* code between two awaits of one in-flight call.                          *)
(***************************************************************************)
EXTENDS Integers, Sequences, FiniteSets, TLC

\* ---- bounds of the model ------------------------------------------------
NumJobs == 2          \* jobs on the ledger (ids 0 .. NumJobs-1)
MaxDiscTicks == 2     \* monitorNewJobs calls in one run
MaxActTicks == 2      \* processActiveJobs calls of one run that reach an await
MaxStarts == 1        \* startJobMonitoring calls in one run
MaxStartCalls == 2    \* startJobMonitoring calls made through the exported manager

\* ---- program constants --------------------------------------------------
latestJobCount == 10  \* monitorNewJobs: window of latest jobs

Jobs == 0 .. (NumJobs - 1)
DiscProcs == 1 .. MaxDiscTicks
ActProcs == 1 .. MaxActTicks

Me == "me"                  \* connector.wallet.address
SomeoneElse == "other"      \* any other address
ZeroAddress == "zero"       \* ethers.ZeroAddress: no worker yet

VARIABLES
  ledger,               \* marketplace contract: job id -> [state, worker, resultHash]
  multipleApplicants,   \* marketplace contract: job id -> BOOLEAN (set at job creation)
  publicKeys,           \* marketplaceData.publicKeys(creator of job): TRUE iff a key is published
  processedJobs,        \* EACCConnector.processedJobs (a Set of job ids)
  activeJobs,           \* BaseAgent.activeJobs (a Map in insertion order): Seq of [id, status]
  disc,                 \* in-flight monitorNewJobs calls
  act,                  \* in-flight processActiveJobs calls
  jobMonitoringInterval,        \* AgentManager.jobMonitoringInterval (0: unset)
  activeJobsMonitoringInterval, \* AgentManager.activeJobsMonitoringInterval (0: unset)
  timers,               \* interval timers the runtime still has scheduled
  starts,               \* number of startJobMonitoring calls made
  applySent,            \* job ids with a postThreadMessage transaction submitted
  takeCalls,            \* job id -> calls of connector.takeJob
  takeSent,             \* job ids with a takeJob transaction submitted
  applyOk,              \* job id -> confirmed postThreadMessage transactions
  takeOk,               \* job ids with a confirmed takeJob of the local wallet
  deliverOk,            \* job id -> confirmed deliverResult transactions
  keyErr,               \* job id -> calls of applyForJob that threw the missing-key error
  lastGetJob,           \* how the latest connector.getJob of processActiveJobs settled
  ipfs,                 \* one Encryption.getFromIpfs call
  calc                  \* one call of a function of Encryption or EACCConnector

mgrVars == <<ledger, multipleApplicants, publicKeys, processedJobs, activeJobs, disc, act,
             jobMonitoringInterval, activeJobsMonitoringInterval, timers, starts,
             applySent, takeCalls, takeSent, applyOk, takeOk, deliverOk, keyErr,
             lastGetJob>>
vars == <<mgrVars, ipfs, calc>>

\* ---- BaseAgent.activeJobs: a Map that iterates in insertion order --------
Has(m, id) == \E k \in 1 .. Len(m) : m[k].id = id
IndexOf(m, id) == CHOOSE k \in 1 .. Len(m) : m[k].id = id
StatusOf(m, id) == m[IndexOf(m, id)].status

\* addActiveJob: Map.set of a fresh record with status 'started'
addActiveJob(m, id) ==
  IF Has(m, id)
    THEN [m EXCEPT ![IndexOf(m, id)] = [id |-> id, status |-> "started"]]
    ELSE Append(m, [id |-> id, status |-> "started"])

\* updateActiveJob: the caller has checked Has(m, id); otherwise it throws
updateActiveJob(m, id, status) == [m EXCEPT ![IndexOf(m, id)].status = status]

\* removeActiveJob: Map.delete
removeActiveJob(m, id) == SelectSeq(m, LAMBDA r : r.id # id)


\* ---- in-flight calls ------------------------------------------------------
IdleDisc == [pc |-> "idle", jobs |-> <<>>, applied |-> {}]
DoneDisc == [pc |-> "done", jobs |-> <<>>, applied |-> {}]
IdleAct == [pc |-> "idle", idx |-> 0, cur |-> 0, info |-> "live"]
DoneAct == [pc |-> "done", idx |-> 0, cur |-> 0, info |-> "live"]

DiscInFlight(d) == disc[d].pc \notin {"idle", "done"}
ActInFlight(a) == act[a].pc \notin {"idle", "done"}

\* the call slots are used in order: the next call takes the lowest idle slot
FreeDisc(d) == disc[d].pc = "idle" /\ \A e \in DiscProcs : e < d => disc[e].pc # "idle"
FreeAct(a) == act[a].pc = "idle" /\ \A b \in ActProcs : b < a => act[b].pc # "idle"

\* The job the discovery call d is working on: a record [id, state] of the list
\* getJobs returned, of which disc[d].jobs keeps the jobs not yet finished
DJob(d) == Head(disc[d].jobs)

\* a bug: the end of one job's processing ends the tick
NextJobAborts(r) == DoneDisc

\* for (const job of jobs) await this.processJob(job): go on with the next job
NextJob(r) ==
  IF Len(r.jobs) > 1 THEN [r EXCEPT !.pc = "content", !.jobs = Tail(r.jobs)] ELSE DoneDisc

\* for (const [jobId, jobInfo] of agent.activeJobs.entries()): the Map iterator
\* yields the entry after the idx entries it has passed, of the Map as it is now
NextActive(r, m) ==
  IF r.idx < Len(m)
    THEN [pc |-> "getJob", idx |-> r.idx + 1, cur |-> m[r.idx + 1].id, info |-> "live"]
    ELSE DoneAct

\* Map.delete(id) as the running iterators and the holders of jobInfo see it:
\* an iterator that has passed the entry has passed one entry less, and a
\* jobInfo reference to the deleted record keeps the status it had
RemoveEffect(A, m, id) ==
  IF ~Has(m, id) THEN A
  ELSE [a \in ActProcs |->
          IF A[a].pc \in {"idle", "done"} THEN A[a]
          ELSE [A[a] EXCEPT
                  !.idx = IF @ >= IndexOf(m, id) THEN @ - 1 ELSE @,
                  !.info = IF A[a].pc = "getJob" /\ A[a].cur = id /\ @ = "live"
                             THEN StatusOf(m, id) ELSE @]]

\* Map.set(id, fresh record) over an existing entry: a jobInfo reference to the
\* replaced record keeps the status that record had
ReplaceEffect(A, m, id) ==
  IF ~Has(m, id) THEN A
  ELSE [a \in ActProcs |->
          IF A[a].pc = "getJob" /\ A[a].cur = id /\ A[a].info = "live"
            THEN [A[a] EXCEPT !.info = StatusOf(m, id)] ELSE A[a]]

\* jobInfo.status as the call a reads it after its await
HeldStatus(a) ==
  IF act[a].info = "live" THEN StatusOf(activeJobs, act[a].cur) ELSE act[a].info

\* ---- EACCConnector.isRelevantJob ----------------------------------------
\* a bug: a job already processed is taken as relevant again
isRelevantJobIgnoresProcessed(job, kw) == job.state = 0 /\ kw

\* kw: some configured keyword occurs in the title, a tag or the content
isRelevantJob(job, kw) ==
  /\ job.state = 0
  /\ job.id \notin processedJobs
  /\ kw

\* ---- AgentManager.monitorNewJobs / processJob ---------------------------
\* the jobs getJobs(startIdx) asks for
startIdx == IF NumJobs - latestJobCount > 0 THEN NumJobs - latestJobCount ELSE 0
Window == startIdx .. (NumJobs - 1)

Ascending(S) ==
  CHOOSE s \in [1 .. Cardinality(S) -> S] : \A x, y \in 1 .. Cardinality(S) : x < y => s[x] < s[y]

\* the list getJobs returns when the jobs in S could be fetched
JobList(S) == [k \in 1 .. Cardinality(S) |-> [id |-> Ascending(S)[k], state |-> ledger[Ascending(S)[k]].state]]

\* monitorNewJobs is called (by a timer or by startJobMonitoring) and awaits jobsLength
BeginMonitorNewJobs(D, d) == [D EXCEPT ![d].pc = "getJobs"]

\* processActiveJobs is called: with an empty Map it returns at once (the call
\* is never in flight and its slot stays free), otherwise it awaits getJob of
\* the first entry
BeginProcessActiveJobs(A, a) ==
  IF activeJobs = <<>> THEN A ELSE [A EXCEPT ![a] = NextActive(IdleAct, activeJobs)]

discFrame == <<ledger, multipleApplicants, publicKeys, act, jobMonitoringInterval,
               activeJobsMonitoringInterval, timers, starts, deliverOk, ipfs,
               calc, lastGetJob>>

\* jobsLength and getJobs return (or throw: the tick ends); processJob is called
\* for the first job and awaits getJobContent
GetJobs(d) ==
  /\ disc[d].pc = "getJobs"
  /\ \/ disc' = [disc EXCEPT ![d] = DoneDisc]
     \/ \E S \in SUBSET Window :
          disc' = [disc EXCEPT ![d] = IF S = {} THEN DoneDisc
                                         ELSE [@ EXCEPT !.pc = "content", !.jobs = JobList(S)]]
  /\ UNCHANGED <<discFrame, processedJobs, activeJobs, applySent, takeCalls, takeSent, applyOk,
                 takeOk, keyErr>>

\* a bug: applyForJob goes on whatever publicKeys returned
keyAssumed(published) == TRUE

\* applyForJob: !(!ownerPublicKey || ownerPublicKey === '0x')
keyAvailable(published) == published

\* processJob: getJobContent returns; relevance and agent match are decided and
\* applyForJob runs up to the submission of postThreadMessage.
\*   kw, agentMatch: the results of the keyword test and of agent.isJobMatch
\*   sent: getJob, publicKeys, getSessionKey, publishToIpfs and the submission
\*         of the transaction all succeeded (otherwise applyForJob returns false)
ProcessJobContent(d) ==
  /\ disc[d].pc = "content"
  /\ \E kw \in BOOLEAN :
       IF ~isRelevantJob(DJob(d), kw)
         THEN /\ disc' = [disc EXCEPT ![d] = NextJob(@)]
              /\ UNCHANGED <<applySent, keyErr>>
         ELSE \E agentMatch \in BOOLEAN :
           IF ~agentMatch
             THEN /\ disc' = [disc EXCEPT ![d] = NextJob(@)]
                  /\ UNCHANGED <<applySent, keyErr>>
           ELSE IF ~keyAvailable(publicKeys[DJob(d).id])
             THEN /\ disc' = [disc EXCEPT ![d] = NextJob(@)]
                  /\ keyErr' = [keyErr EXCEPT ![DJob(d).id] = @ + 1]
                  /\ UNCHANGED applySent
           ELSE \E sent \in BOOLEAN :
             IF ~sent
               THEN /\ disc' = [disc EXCEPT ![d] = NextJob(@)]
                    /\ UNCHANGED <<applySent, keyErr>>
               ELSE /\ disc' = [disc EXCEPT ![d].pc = "apply_wait",
                                            ![d].applied = @ \cup {DJob(d).id}]
                    /\ applySent' = applySent \cup {DJob(d).id}
                    /\ UNCHANGED keyErr
  /\ UNCHANGED <<discFrame, processedJobs, activeJobs, takeCalls, takeSent, applyOk, takeOk>>

\* a bug: the confirmed job is not remembered
markProcessedForgets(S, id) == S

\* applyForJob and takeJob, after tx.wait() returned: this.processedJobs.add(jobId)
markProcessed(S, id) == S \cup {id}

\* agent.addActiveJob(job, content), as the Map and the holders of jobInfo see it
AddActive(id) ==
  /\ activeJobs' = addActiveJob(activeJobs, id)
  /\ act' = ReplaceEffect(act, activeJobs, id)

\* a bug: processJob takes every job it has applied to
takesJobAlways(multi) == TRUE

\* processJob, after applyForJob returned true: is takeJob called?
takesJob(multi) == ~multi

\* processJob, after takeJob returned ok: is the record added?
addsAfterTake(ok) == TRUE

\* applyForJob: tx.wait() throws (applyForJob returns false), or it returns: the
\* job is marked processed and processJob either adds the record or calls
\* takeJob, which runs up to the submission of the takeJob transaction.
\*   sent: eventsLength, signMessage and the submission succeeded
ApplyWait(d) ==
  /\ disc[d].pc = "apply_wait"
  /\ \/ /\ disc' = [disc EXCEPT ![d] = NextJob(@)]          \* the transaction failed
        /\ UNCHANGED <<processedJobs, applyOk, activeJobs, act, takeCalls, takeSent>>
     \/ /\ processedJobs' = markProcessed(processedJobs, DJob(d).id)
        /\ applyOk' = [applyOk EXCEPT ![DJob(d).id] = @ + 1]
        /\ IF takesJob(multipleApplicants[DJob(d).id])
             THEN \E sent \in BOOLEAN :
                    /\ takeCalls' = [takeCalls EXCEPT ![DJob(d).id] = @ + 1]
                    /\ IF sent
                         THEN /\ disc' = [disc EXCEPT ![d].pc = "take_wait"]
                              /\ takeSent' = takeSent \cup {DJob(d).id}
                              /\ UNCHANGED <<activeJobs, act>>
                         ELSE /\ disc' = [disc EXCEPT ![d] = NextJob(@)]   \* takeJob returns false
                              /\ IF addsAfterTake(FALSE) THEN AddActive(DJob(d).id)
                                                         ELSE UNCHANGED <<activeJobs, act>>
                              /\ UNCHANGED takeSent
             ELSE /\ disc' = [disc EXCEPT ![d] = NextJob(@)]
                  /\ AddActive(DJob(d).id)
                  /\ UNCHANGED <<takeCalls, takeSent>>
  /\ UNCHANGED <<ledger, multipleApplicants, publicKeys, jobMonitoringInterval,
                 activeJobsMonitoringInterval, timers, starts, deliverOk, ipfs,
                 calc, lastGetJob, applySent, takeOk, keyErr>>

\* takeJob: tx.wait() returns (the ledger made the wallet the worker) or throws;
\* processJob then adds the record
TakeWait(d) ==
  /\ disc[d].pc = "take_wait"
  /\ \/ /\ ledger[DJob(d).id].state = 0
        /\ ledger' = [ledger EXCEPT ![DJob(d).id].state = 1, ![DJob(d).id].worker = Me]
        /\ processedJobs' = markProcessed(processedJobs, DJob(d).id)
        /\ takeOk' = takeOk \cup {DJob(d).id}
        /\ IF addsAfterTake(TRUE) THEN AddActive(DJob(d).id) ELSE UNCHANGED <<activeJobs, act>>
     \/ /\ IF addsAfterTake(FALSE) THEN AddActive(DJob(d).id) ELSE UNCHANGED <<activeJobs, act>>
        /\ UNCHANGED <<ledger, processedJobs, takeOk>>
  /\ disc' = [disc EXCEPT ![d] = NextJob(@)]
  /\ UNCHANGED <<multipleApplicants, publicKeys, jobMonitoringInterval,
                 activeJobsMonitoringInterval, timers, starts, deliverOk, ipfs,
                 calc, lastGetJob, applySent, takeCalls, takeSent, applyOk, keyErr>>

\* ---- AgentManager.processActiveJobs -------------------------------------
actFrame == <<multipleApplicants, publicKeys, processedJobs, disc, jobMonitoringInterval,
              activeJobsMonitoringInterval, timers, starts, applySent, takeCalls, takeSent,
              applyOk, takeOk, keyErr, ipfs, calc>>

\* the branch processActiveJobs takes on the job state it has read
BranchExecutesUnassigned(job, status) ==
  IF job.state = 1 /\ status = "started" /\ ~job.resultHash THEN "execute"
  ELSE IF job.worker # Me THEN "remove"
  ELSE IF job.state > 1 THEN "remove"
  ELSE "skip"

BranchKeepsClosed(job, status) ==
  IF job.worker # Me THEN "remove"
  ELSE IF job.state = 1 /\ status = "started" /\ ~job.resultHash THEN "execute"
  ELSE "skip"

Branch(job, status) ==
  IF job.worker # Me THEN "remove"
  ELSE IF job.state = 1 /\ status = "started" /\ ~job.resultHash THEN "execute"
  ELSE IF job.state > 1 THEN "remove"
  ELSE "skip"

\* connector.getJob returns (or throws) and the branch runs up to its next await
ActGetJob(a) ==
  /\ act[a].pc = "getJob"
  /\ \/ /\ act' = [act EXCEPT ![a] = NextActive(@, activeJobs)]       \* getJob throws
        /\ lastGetJob' = "threw"
        /\ UNCHANGED activeJobs
     \/ /\ Branch(ledger[act[a].cur], HeldStatus(a)) = "remove"
        /\ lastGetJob' = "returned"
        /\ activeJobs' = removeActiveJob(activeJobs, act[a].cur)
        /\ act' = [RemoveEffect(act, activeJobs, act[a].cur) EXCEPT
                     ![a] = NextActive(@, activeJobs')]
     \/ /\ Branch(ledger[act[a].cur], HeldStatus(a)) = "execute"
        /\ lastGetJob' = "returned"
        /\ IF Has(activeJobs, act[a].cur)
             THEN /\ activeJobs' = updateActiveJob(activeJobs, act[a].cur, "executing")
                  /\ act' = [act EXCEPT ![a].pc = "executeJob", ![a].info = "live"]
             ELSE /\ act' = [act EXCEPT ![a] = NextActive(@, activeJobs)]  \* updateActiveJob throws
                  /\ UNCHANGED activeJobs
     \/ /\ Branch(ledger[act[a].cur], HeldStatus(a)) = "skip"
        /\ lastGetJob' = "returned"
        /\ act' = [act EXCEPT ![a] = NextActive(@, activeJobs)]
        /\ UNCHANGED activeJobs
  /\ UNCHANGED <<actFrame, ledger, deliverOk>>

\* a bug: updateActiveJob sets the record whether or not the Map has the key
FinishJobUpserts(a, status) ==
  /\ activeJobs' = IF Has(activeJobs, act[a].cur)
                     THEN updateActiveJob(activeJobs, act[a].cur, status)
                     ELSE Append(activeJobs, [id |-> act[a].cur, status |-> status])
  /\ act' = [act EXCEPT ![a] = NextActive(@, activeJobs)]

\* updateActiveJob(jobId, status) at the end of an iteration: it throws when the
\* record is gone, the catch logs it, and the loop goes on
FinishJob(a, status) ==
  /\ activeJobs' = IF Has(activeJobs, act[a].cur)
                     THEN updateActiveJob(activeJobs, act[a].cur, status) ELSE activeJobs
  /\ act' = [act EXCEPT ![a] = NextActive(@, activeJobs)]

\* executeJob returns, packageResult runs and deliverResult runs up to the
\* submission of its transaction.
\*   "threw": executeJob or packageResult throws; the catch goes on with the next record
\*   "failed": deliverResult fails before the submission and returns false
\*   "sent": the deliverResult transaction is submitted
ActExecuteJob(a) ==
  /\ act[a].pc = "executeJob"
  /\ \E outcome \in {"threw", "failed", "sent"} :
       CASE outcome = "threw" ->
              /\ act' = [act EXCEPT ![a] = NextActive(@, activeJobs)]
              /\ UNCHANGED activeJobs
         [] outcome = "failed" -> FinishJob(a, "delivery_failed")
         [] outcome = "sent" ->
              /\ act' = [act EXCEPT ![a].pc = "deliver_wait"]
              /\ UNCHANGED activeJobs
  /\ UNCHANGED <<actFrame, ledger, deliverOk, lastGetJob>>

\* deliverResult: tx.wait() returns (the ledger recorded the result) or throws
DeliverWait(a) ==
  /\ act[a].pc = "deliver_wait"
  /\ \/ /\ ledger[act[a].cur].state = 1 /\ ledger[act[a].cur].worker = Me
        /\ ledger' = [ledger EXCEPT ![act[a].cur].resultHash = TRUE]
        /\ deliverOk' = [deliverOk EXCEPT ![act[a].cur] = @ + 1]
        /\ FinishJob(a, "delivered")
     \/ /\ FinishJob(a, "delivery_failed")
        /\ UNCHANGED <<ledger, deliverOk>>
  /\ UNCHANGED <<actFrame, lastGetJob>>

\* ---- AgentManager.startJobMonitoring and the interval timers -------------
timerFrame == <<ledger, multipleApplicants, publicKeys, processedJobs, activeJobs,
                applySent, takeCalls, takeSent, applyOk, takeOk, deliverOk, keyErr, ipfs,
                calc, lastGetJob>>

\* startJobMonitoring: two setInterval calls, then one immediate call of each loop
\*   limit: the number of calls of it made in one run
StartMonitoring(limit) ==
  /\ starts < limit
  /\ \E d \in DiscProcs, a \in ActProcs :
       /\ FreeDisc(d) /\ FreeAct(a)
       /\ disc' = BeginMonitorNewJobs(disc, d)
       /\ act' = BeginProcessActiveJobs(act, a)
  /\ starts' = starts + 1
  /\ jobMonitoringInterval' = starts + 1
  /\ activeJobsMonitoringInterval' = starts + 1
  /\ timers' = timers \cup {[kind |-> "jobs", id |-> starts + 1],
                            [kind |-> "active", id |-> starts + 1]}
  /\ UNCHANGED timerFrame

startJobMonitoring == StartMonitoring(MaxStarts)

\* may the interval callback call the loop while n calls of it are in flight?
mayFire(n) == TRUE

\* the jobs timer comes due: its callback calls monitorNewJobs
JobTimerFires(d) ==
  /\ \E t \in timers : t.kind = "jobs"
  /\ FreeDisc(d)
  /\ mayFire(Cardinality({e \in DiscProcs : DiscInFlight(e)}))
  /\ disc' = BeginMonitorNewJobs(disc, d)
  /\ UNCHANGED <<timerFrame, act, jobMonitoringInterval, activeJobsMonitoringInterval,
                 timers, starts>>

\* the active-jobs timer comes due: its callback calls processActiveJobs
ActiveTimerFires(a) ==
  /\ \E t \in timers : t.kind = "active"
  /\ FreeAct(a)
  /\ mayFire(Cardinality({b \in ActProcs : ActInFlight(b)}))
  /\ act' = BeginProcessActiveJobs(act, a)
  /\ UNCHANGED <<timerFrame, disc, jobMonitoringInterval, activeJobsMonitoringInterval,
                 timers, starts>>

\* ---- AgentManager.stopJobMonitoring and index.js ---------------------------
\* a bug: the handle of the active-jobs timer is forgotten without clearInterval
stopJobMonitoringLeavesActiveTimer ==
  /\ timers' = {t \in timers : ~(t.kind = "jobs" /\ t.id = jobMonitoringInterval)}
  /\ jobMonitoringInterval' = 0
  /\ activeJobsMonitoringInterval' = 0
  /\ UNCHANGED <<timerFrame, disc, act, starts>>

\* stopJobMonitoring: clearInterval of each handle that is set, and the handle
\* becomes null (0: no timer has the id 0)
stopJobMonitoring ==
  /\ timers' = {t \in timers : /\ ~(t.kind = "jobs" /\ t.id = jobMonitoringInterval)
                               /\ ~(t.kind = "active" /\ t.id = activeJobsMonitoringInterval)}
  /\ jobMonitoringInterval' = 0
  /\ activeJobsMonitoringInterval' = 0
  /\ UNCHANGED <<timerFrame, disc, act, starts>>

\* index.js main: the one call of startJobMonitoring of a run of the program
main == starts = 0 /\ startJobMonitoring

\* index.js shutdown, on SIGINT, SIGTERM, an uncaught exception or an unhandled
\* rejection; the handlers are installed after main has started the monitoring.
\* process.exit(0) follows the call: no code of the program runs after it.  The
\* process is kept running here, so that what holds after the call is what
\* stopJobMonitoring itself has done.
shutdown == starts > 0 /\ stopJobMonitoring

\* ---- the ledger's other users ---------------------------------------------
envFrame == <<multipleApplicants, publicKeys, processedJobs, activeJobs, disc, act,
              jobMonitoringInterval, activeJobsMonitoringInterval, timers, starts,
              applySent, takeCalls, takeSent, applyOk, takeOk, deliverOk, keyErr, ipfs,
                calc, lastGetJob>>

\* an open job stops being open without the local wallet as its worker: another
\* worker takes it (to the program, which reads only state # 0 and worker # wallet
\* of such a job, its later closing or its cancellation look the same)
OtherTakes(j) ==
  /\ ledger[j].state = 0
  /\ ledger' = [ledger EXCEPT ![j].state = 1, ![j].worker = SomeoneElse]
  /\ UNCHANGED envFrame

\* the creator of a multiple-applicant job assigns it to the local wallet, an applicant
CreatorAssigns(j) ==
  /\ ledger[j].state = 0 /\ multipleApplicants[j] /\ applyOk[j] > 0
  /\ ledger' = [ledger EXCEPT ![j].state = 1, ![j].worker = Me]
  /\ UNCHANGED envFrame

\* the job the local wallet works on is closed (completed or disputed)
JobCloses(j) ==
  /\ ledger[j].state = 1 /\ ledger[j].worker = Me
  /\ ledger' = [ledger EXCEPT ![j].state = 2]
  /\ UNCHANGED envFrame

\* no function call is being evaluated
NoCall == [op |-> "none"]

\* ---- the specification of the manager -------------------------------------
IdleIpfs == [pc |-> "idle", key |-> 0, gateways |-> <<>>, g |-> 0, log |-> <<>>,
             result |-> [plain |-> 0, sealed |-> 0, tampered |-> FALSE], lastError |-> "",
             plaintext |-> [utf8 |-> 0, wellFormed |-> TRUE], encryptionKey |-> 0,
             stored |-> [plain |-> 0, sealed |-> 0, tampered |-> FALSE]]

\* the state after construction, but for the connector's processedJobs
InitWith(processed) ==
  /\ ledger = [j \in Jobs |-> [state |-> 0, worker |-> ZeroAddress, resultHash |-> FALSE]]
  /\ multipleApplicants \in [Jobs -> BOOLEAN]
  /\ publicKeys \in [Jobs -> BOOLEAN]
  /\ processedJobs = processed
  /\ activeJobs = <<>>
  /\ disc = [d \in DiscProcs |-> IdleDisc]
  /\ act = [a \in ActProcs |-> IdleAct]
  /\ jobMonitoringInterval = 0
  /\ activeJobsMonitoringInterval = 0
  /\ timers = {}
  /\ starts = 0
  /\ applySent = {}
  /\ takeCalls = [j \in Jobs |-> 0]
  /\ takeSent = {}
  /\ applyOk = [j \in Jobs |-> 0]
  /\ takeOk = {}
  /\ deliverOk = [j \in Jobs |-> 0]
  /\ keyErr = [j \in Jobs |-> 0]
  /\ lastGetJob = "none"
  /\ ipfs = IdleIpfs
  /\ calc = NoCall

Init == InitWith({})

Next ==
  \/ startJobMonitoring
  \/ \E d \in DiscProcs : JobTimerFires(d)
  \/ \E a \in ActProcs : ActiveTimerFires(a)
  \/ \E d \in DiscProcs : GetJobs(d)
  \/ \E d \in DiscProcs : ProcessJobContent(d)
  \/ \E d \in DiscProcs : ApplyWait(d)
  \/ \E d \in DiscProcs : TakeWait(d)
  \/ \E a \in ActProcs : ActGetJob(a)
  \/ \E a \in ActProcs : ActExecuteJob(a)
  \/ \E a \in ActProcs : DeliverWait(a)
  \/ \E j \in Jobs : OtherTakes(j)
  \/ \E j \in Jobs : CreatorAssigns(j)
  \/ \E j \in Jobs : JobCloses(j)

Spec == Init /\ [][Next]_vars


\* ---- the program of index.js: main, then the polling, then a shutdown ------
NextShutdown ==
  \/ main
  \/ shutdown
  \/ \E d \in DiscProcs : JobTimerFires(d)
  \/ \E a \in ActProcs : ActiveTimerFires(a)
  \/ \E d \in DiscProcs : GetJobs(d)
  \/ \E d \in DiscProcs : ProcessJobContent(d)
  \/ \E d \in DiscProcs : ApplyWait(d)
  \/ \E d \in DiscProcs : TakeWait(d)
  \/ \E a \in ActProcs : ActGetJob(a)
  \/ \E a \in ActProcs : ActExecuteJob(a)
  \/ \E a \in ActProcs : DeliverWait(a)
  \/ \E j \in Jobs : OtherTakes(j)
  \/ \E j \in Jobs : CreatorAssigns(j)
  \/ \E j \in Jobs : JobCloses(j)

SpecShutdown == Init /\ [][NextShutdown]_vars

\* ---- the exported manager: startJobMonitoring and stopJobMonitoring called
\* ---- in any order ----------------------------------------------------------
startJobMonitoringCall == StartMonitoring(MaxStartCalls)

\* The calls the timers make are followed through discovery and the reading of
\* the ledger (the execution of jobs and the ledger's other users change
\* neither the timers nor the handles)
NextMonitoring ==
  \/ startJobMonitoringCall
  \/ stopJobMonitoring
  \/ \E d \in DiscProcs : JobTimerFires(d)
  \/ \E a \in ActProcs : ActiveTimerFires(a)
  \/ \E d \in DiscProcs : GetJobs(d)
  \/ \E d \in DiscProcs : ProcessJobContent(d)
  \/ \E d \in DiscProcs : ApplyWait(d)
  \/ \E d \in DiscProcs : TakeWait(d)
  \/ \E a \in ActProcs : ActGetJob(a)

SpecMonitoring == Init /\ [][NextMonitoring]_vars

\* ---- the manager with its active-jobs timer firing for ever -----------------
\* a processActiveJobs call that has returned is gone: its slot is free again
processActiveJobsReturns(a) ==
  /\ act[a].pc = "done"
  /\ act' = [act EXCEPT ![a] = IdleAct]
  /\ UNCHANGED <<timerFrame, disc, jobMonitoringInterval, activeJobsMonitoringInterval,
                 timers, starts>>

NextLive ==
  \/ Next
  \/ \E a \in ActProcs : processActiveJobsReturns(a)

\* setInterval calls its callback again and again while the timer is scheduled,
\* and every awaited call of processActiveJobs (getJob, executeJob,
\* deliverResult, tx.wait) settles
Fairness ==
  /\ WF_vars(\E a \in ActProcs : ActiveTimerFires(a))
  /\ WF_vars(\E a \in ActProcs : processActiveJobsReturns(a))
  /\ \A a \in ActProcs : /\ WF_vars(ActGetJob(a))
                         /\ WF_vars(ActExecuteJob(a))
                         /\ WF_vars(DeliverWait(a))

SpecLive == Init /\ [][NextLive]_vars /\ Fairness

\* ---- Encryption.getFromIpfs ----------------------------------------------
NumKeys == 2          \* session keys 1 .. NumKeys; 0 stands for decryptionKey = null
MaxPlain == 2         \* plaintexts 1 .. MaxPlain

\* what a gateway can serve for a cid: bytes that are a plaintext (sealed = 0), or
\* an envelope sealed under a key, possibly with flipped bits (tampered)
Blobs == [plain : 1 .. MaxPlain, sealed : 0 .. NumKeys, tampered : {FALSE}]
           \cup [plain : 1 .. MaxPlain, sealed : 1 .. NumKeys, tampered : {TRUE}]

\* Config.loadConfig: the configured gateway (or its default) and four more
ipfsGateways(envUrl) ==
  << IF envUrl = "" THEN "gateway.pinata.cloud" ELSE envUrl,
     "gateway.pinata.cloud", "cloudflare-ipfs.com", "dweb.link", "ipfs.io" >>

GatewayEnv == {"", "my.gateway", "dweb.link"}

\* the utf-8 string with plaintext p, and the absence of content
Text(p) == [plain |-> p, sealed |-> 0, tampered |-> FALSE]
NoContent == Text(0)

\* how axios.get of one gateway can settle: a timeout, a transport error, or data
Responses == {[kind |-> k, data |-> NoContent] : k \in {"timeout", "neterr"}}
               \cup {[kind |-> "data", data |-> b] : b \in Blobs}

\* decryptToUtf8: AES-256-GCM opens the envelope only under the key that sealed
\* it and only if it is intact; otherwise decipher.final() throws
decryptToUtf8(blob, key) ==
  IF blob.sealed = key /\ ~blob.tampered
    THEN [ok |-> TRUE, text |-> Text(blob.plain)] ELSE [ok |-> FALSE, text |-> NoContent]

\* the body of the try block for one gateway, given how axios.get settled
attempt(resp, key) ==
  IF resp.kind # "data" THEN [ok |-> FALSE, error |-> resp.kind, content |-> NoContent]
  ELSE IF key = 0 THEN [ok |-> TRUE, error |-> "", content |-> resp.data]
  ELSE IF decryptToUtf8(resp.data, key).ok
    THEN [ok |-> TRUE, error |-> "", content |-> decryptToUtf8(resp.data, key).text]
    ELSE [ok |-> FALSE, error |-> "auth", content |-> NoContent]

\* the catch block: where the loop goes after a failed attempt at gateway g of n
afterFailure(g, n) == IF g < n THEN "fetch" ELSE "threw"

\* for (const gateway of config.ipfsGateways): the gateway tried after gateway g
nextGateway(g, n) == IF g < n THEN g + 1 ELSE g

\* A JavaScript string, given by its UTF-8 encoding (one of 1 .. MaxPlain) and by
\* whether all its surrogates are paired: Buffer.from(s, 'utf8') encodes an
\* unpaired surrogate as U+FFFD, so an ill-formed string has the encoding of the
\* well-formed string with U+FFFD in its place
JsStrings == [utf8 : 1 .. MaxPlain, wellFormed : BOOLEAN]

\* buf.toString('utf8') of the bytes p: always a well-formed string
utf8String(p) == [utf8 |-> p, wellFormed |-> TRUE]

\* a bug: the content is uploaded as it is although a key was given
publishUnsealed(content, encryptionKey) ==
  [plain |-> content.utf8, sealed |-> 0, tampered |-> FALSE]

\* publishToIpfs: the bytes pinned for content, sealed under encryptionKey when
\* one is given (0: none)
publishToIpfs(content, encryptionKey) ==
  [plain |-> content.utf8, sealed |-> encryptionKey, tampered |-> FALSE]

\* publishToIpfs(content, key) is called and the pinning service answers: with
\* the locator of the pinned bytes, or with an error (publishToIpfs throws)
publishToIpfsCall ==
  /\ ipfs.pc = "idle"
  /\ \/ ipfs' = [ipfs EXCEPT !.pc = "publish_threw"]
     \/ \E content \in JsStrings, key \in 0 .. NumKeys :
          ipfs' = [ipfs EXCEPT !.pc = "published", !.plaintext = content,
                               !.encryptionKey = key,
                               !.stored = publishToIpfs(content, key)]
  /\ UNCHANGED <<mgrVars, calc>>

\* getFromIpfs(cid, key) is called, for a locator someone else published or for
\* the one publishToIpfs returned: the loop awaits the first gateway
getFromIpfsCall ==
  /\ ipfs.pc \in {"idle", "published"}
  /\ \E key \in 0 .. NumKeys, envUrl \in GatewayEnv :
       ipfs' = [ipfs EXCEPT !.pc = "fetch", !.key = key, !.gateways = ipfsGateways(envUrl),
                            !.g = 1, !.log = <<>>, !.result = NoContent, !.lastError = ""]
  /\ UNCHANGED <<mgrVars, calc>>

\* axios.get of the current gateway settles and the rest of the iteration runs
getFromIpfsAttempt ==
  /\ ipfs.pc = "fetch"
  /\ \E resp \in Responses :
       LET r == attempt(resp, ipfs.key)
           entry == [gateway |-> ipfs.g, served |-> resp.kind = "data", ok |-> r.ok,
                     content |-> r.content,
                     stored |-> resp.kind = "data" /\ resp.data = ipfs.stored]
       IN IF r.ok
            THEN ipfs' = [ipfs EXCEPT !.pc = "returned", !.result = r.content,
                                      !.log = Append(@, entry)]
            ELSE ipfs' = [ipfs EXCEPT !.pc = afterFailure(ipfs.g, Len(ipfs.gateways)),
                                      !.g = nextGateway(@, Len(ipfs.gateways)),
                                      !.lastError = r.error,
                                      !.log = Append(@, entry)]
  /\ UNCHANGED <<mgrVars, calc>>

NextIpfs == publishToIpfsCall \/ getFromIpfsCall \/ getFromIpfsAttempt

SpecIpfs == Init /\ [][NextIpfs]_vars


\* ---- Encryption.hashToCid and the digests the connector records ------------
DigestLengths == {20, 32}   \* byte lengths of the hex digests tried; 32 is a bytes32

\* Hash functions are taken to be free of collisions, within one function and
\* between the two: sha2-256 of the pinned bytes b and keccak256 of a text get
\* different numbers for different arguments
sha256(b) == 2 * b
keccak256(text) == 2 * text.id + 1

\* the text bs58.encode(multihash.encode(bytes, 'sha2-256')) of len bytes numbered id
Base58(len, id) == [kind |-> "b58", len |-> len, id |-> id, prefixed |-> FALSE]

\* a hex string of len bytes numbered id, with or without '0x' in front
Hex(len, id, prefixed) == [kind |-> "hex", len |-> len, id |-> id, prefixed |-> prefixed]

\* the multihash of a 32-byte digest starts with the bytes 0x12 0x20, and the
\* base-58 text of those 34 bytes starts with 'Qm'; that of a shorter one does not
startsWithQm(text) == text.kind = "b58" /\ text.len = 32

\* Buffer.from(text, 'hex'): the bytes of a hex string; of a text that is not
\* hex, the decoding stops at the first character that is no hex digit (taken
\* here as no bytes at all)
fromHex(text) == IF text.kind = "hex" THEN [len |-> text.len, id |-> text.id]
                                      ELSE [len |-> 0, id |-> 0]

\* a bug: every input is converted, a locator too
hashToCidAlwaysEncodes(hash) ==
  Base58(fromHex([hash EXCEPT !.prefixed = FALSE]).len, fromHex([hash EXCEPT !.prefixed = FALSE]).id)

\* hashToCid: strip '0x', pass a 'Qm...' text through, encode anything else
hashToCid(hash) ==
  LET cleanHash == [hash EXCEPT !.prefixed = FALSE]
      hashBytes == fromHex(cleanHash)
  IN IF startsWithQm(cleanHash) THEN cleanHash ELSE Base58(hashBytes.len, hashBytes.id)

\* response.data.IpfsHash of pinFileToIPFS: the CIDv0 of the pinned bytes b
IpfsHash(b) == Base58(32, sha256(b))

\* applyForJob / deliverResult: ethers.keccak256(ethers.toUtf8Bytes(hash)), the
\* bytes32 handed to postThreadMessage / deliverResult
contentHashBytes(hash) == Hex(32, keccak256(hash), TRUE)

HashInputs == {Hex(len, id, pre) : len \in DigestLengths, id \in 1 .. MaxPlain, pre \in BOOLEAN}

\* hashToCid(hash) is called on a hex digest, and once more on what it returned
hashToCidCall ==
  /\ calc.op = "none"
  /\ \E hash \in HashInputs :
       calc' = [op |-> "hashToCid", hash |-> hash, cid |-> hashToCid(hash),
                again |-> hashToCid(hashToCid(hash))]
  /\ UNCHANGED <<mgrVars, ipfs>>

\* applyForJob / deliverResult publish the bytes b and record a digest on the
\* ledger; a reader of the ledger resolves the digest with hashToCid
recordDigestCall ==
  /\ calc.op = "none"
  /\ \E b \in 1 .. MaxPlain :
       calc' = [op |-> "recordDigest", stored |-> b, hash |-> IpfsHash(b),
                recorded |-> contentHashBytes(IpfsHash(b)),
                resolved |-> hashToCid(contentHashBytes(IpfsHash(b)))]
  /\ UNCHANGED <<mgrVars, ipfs>>

\* ---- Encryption.getSessionKey ---------------------------------------------
NumParties == 2       \* wallets 1 .. NumParties; party p has the public key p

Parties == 1 .. NumParties

\* marketplaceData.publicKeys(address of party p)
publicKeyOf(p) == p

\* wallet.signMessage(message): ECDSA with a deterministic nonce; the signature
\* is a function of the signer and the message, and different signers or
\* messages give signatures that differ in their first 32 bytes
signMessage(wallet, message) == [signer |-> wallet, message |-> message]

\* getSessionKey: sign `session-key-${jobId}-${otherPublicKey}` and keep the
\* first 32 bytes of the signature (signature.slice(2, 66))
getSessionKey(wallet, otherPublicKey, jobId) ==
  signMessage(wallet, [jobId |-> jobId, otherPublicKey |-> otherPublicKey])

\* the two parties a and b of job jobId each derive the session key, with their
\* own wallet and the public key of the other
getSessionKeyCall ==
  /\ calc.op = "none"
  /\ \E a \in Parties, b \in Parties, jobId \in Jobs :
       calc' = [op |-> "getSessionKey", a |-> a, b |-> b, jobId |-> jobId,
                keyOfA |-> getSessionKey(a, publicKeyOf(b), jobId),
                keyOfB |-> getSessionKey(b, publicKeyOf(a), jobId)]
  /\ UNCHANGED <<mgrVars, ipfs>>

\* ---- Encryption.encryptUtf8Data / decryptToUtf8, part by part -------------
NumIvs == 2           \* values randomBytes(16) can return: 1 .. NumIvs

\* UTF-16 code units: a letter, a high and a low surrogate, and U+FFFD
CodeUnits == {"a", "hi", "lo", "fffd"}

RECURSIVE StringsUpTo(_)
StringsUpTo(n) ==
  IF n = 0 THEN {<<>>}
  ELSE StringsUpTo(n - 1) \cup {Append(t, c) : t \in StringsUpTo(n - 1), c \in CodeUnits}

\* the strings tried as plaintext
Plaintexts == StringsUpTo(MaxPlain)

\* every surrogate of the string is half of a pair
RECURSIVE WellFormed(_)
WellFormed(str) ==
  IF str = <<>> THEN TRUE
  ELSE IF Head(str) = "hi"
    THEN Len(str) >= 2 /\ str[2] = "lo" /\ WellFormed(Tail(Tail(str)))
  ELSE Head(str) # "lo" /\ WellFormed(Tail(str))

\* Buffer.from(str, 'utf8') as cipher.update(data, 'utf8') does it: one unit per
\* character; a surrogate pair is one (4-byte) character, an unpaired surrogate
\* is encoded as U+FFFD
RECURSIVE utf8Encode(_)
utf8Encode(str) ==
  IF str = <<>> THEN <<>>
  ELSE IF Head(str) = "hi" /\ Len(str) >= 2 /\ str[2] = "lo"
    THEN <<"pair">> \o utf8Encode(Tail(Tail(str)))
  ELSE IF Head(str) \in {"hi", "lo"} THEN <<"fffd">> \o utf8Encode(Tail(str))
  ELSE <<Head(str)>> \o utf8Encode(Tail(str))

\* buf.toString('utf8')
RECURSIVE utf8Decode(_)
utf8Decode(bytes) ==
  IF bytes = <<>> THEN <<>>
  ELSE IF Head(bytes) = "pair" THEN <<"hi", "lo">> \o utf8Decode(Tail(bytes))
  ELSE <<Head(bytes)>> \o utf8Decode(Tail(bytes))

\* AES-256-GCM: the ciphertext of bytes under (key, iv), and the tag over it
gcmCiphertext(key, iv, bytes) == [key |-> key, iv |-> iv, bytes |-> bytes, flipped |-> FALSE]
gcmTag(key, iv, ciphertext) == [key |-> key, iv |-> iv, over |-> ciphertext, flipped |-> FALSE]

\* a bug: the tag is computed under another IV than the one in the envelope
encryptUtf8DataStaleIv(data, key, iv) ==
  [iv |-> iv,
   authTag |-> gcmTag(key, 0, gcmCiphertext(key, iv, utf8Encode(data))),
   encrypted |-> gcmCiphertext(key, iv, utf8Encode(data))]

\* encryptUtf8Data with iv = randomBytes(16): Buffer.concat([iv, authTag, encrypted])
encryptUtf8Data(data, key, iv) ==
  [iv |-> iv,
   authTag |-> gcmTag(key, iv, gcmCiphertext(key, iv, utf8Encode(data))),
   encrypted |-> gcmCiphertext(key, iv, utf8Encode(data))]

\* a bit of the envelope is changed in transit
Mutations == {"none", "ciphertext", "authTag"}
mutate(envelope, mutation) ==
  CASE mutation = "none" -> envelope
    [] mutation = "ciphertext" -> [envelope EXCEPT !.encrypted.flipped = TRUE]
    [] mutation = "authTag" -> [envelope EXCEPT !.authTag.flipped = TRUE]

\* decipher.update(encrypted): the bytes sealed if key and iv are the ones used
\* and the ciphertext is intact, other bytes if not
decipherUpdate(encrypted, key, iv) ==
  IF encrypted.key = key /\ encrypted.iv = iv /\ ~encrypted.flipped
    THEN encrypted.bytes ELSE <<"fffd">>

\* a bug: final() does not compare the tags
decipherFinalUnchecked(encrypted, authTag, key, iv) == TRUE

\* decipher.final() after setAuthTag(authTag): it returns only if authTag is the
\* tag of the ciphertext under (key, iv), and throws otherwise
decipherFinal(encrypted, authTag, key, iv) == authTag = gcmTag(key, iv, encrypted)

\* decryptToUtf8, on the parts of the envelope (slices 0-16, 16-32, 32-)
decryptEnvelopeToUtf8(encryptedData, key) ==
  IF decipherFinal(encryptedData.encrypted, encryptedData.authTag, key, encryptedData.iv)
    THEN [ok |-> TRUE,
          text |-> utf8Decode(decipherUpdate(encryptedData.encrypted, key, encryptedData.iv))]
    ELSE [ok |-> FALSE, text |-> <<>>]

\* encryptUtf8Data(data, key) is called, the envelope may be changed, and
\* decryptToUtf8(envelope, openKey) is called on it
decryptToUtf8Call ==
  /\ calc.op = "none"
  /\ \E data \in Plaintexts, key \in 1 .. NumKeys, iv \in 1 .. NumIvs,
        mutation \in Mutations, openKey \in 1 .. NumKeys :
       calc' = [op |-> "decryptToUtf8", data |-> data, key |-> key, openKey |-> openKey,
                mutation |-> mutation,
                opened |-> decryptEnvelopeToUtf8(mutate(encryptUtf8Data(data, key, iv), mutation),
                                                 openKey)]
  /\ UNCHANGED <<mgrVars, ipfs>>

\* ---- EACCConnector.isRelevantJob, on the texts ------------------------------
MaxTitle == 2         \* length of the titles and keywords tried

Letters == {"b", "B", "x"}

RECURSIVE TextsUpTo(_)
TextsUpTo(n) ==
  IF n = 0 THEN {<<>>}
  ELSE TextsUpTo(n - 1) \cup {Append(t, c) : t \in TextsUpTo(n - 1), c \in Letters}

\* String.prototype.toLowerCase
toLowerCase(str) == [k \in 1 .. Len(str) |-> IF str[k] = "B" THEN "b" ELSE str[k]]

\* String.prototype.includes
includes(str, part) ==
  \E i \in 0 .. Len(str) : i + Len(part) <= Len(str) /\ SubSeq(str, i + 1, i + Len(part)) = part

\* the three keyword tests of isRelevantJob, each behind its guard (a title, a
\* non-empty tag list, a non-empty content)
keywordMatch(job, content, relevantTags) ==
  \/ /\ job.title # <<>>
     /\ \E tag \in relevantTags : includes(toLowerCase(job.title), toLowerCase(tag))
  \/ /\ Len(job.tags) > 0
     /\ \E k \in 1 .. Len(job.tags) : \E relevantTag \in relevantTags :
          includes(toLowerCase(job.tags[k]), toLowerCase(relevantTag))
  \/ /\ content # <<>>
     /\ \E tag \in relevantTags : includes(toLowerCase(content), toLowerCase(tag))

\* config.relevantTags: the RELEVANT_TAGS entries, trimmed, empty ones dropped
KeywordSets == SUBSET {<<"b">>, <<"B", "x">>}

\* the jobs tried: any state, a title, at most one tag
RelevanceJobs ==
  [id : Jobs, state : 0 .. 2, title : TextsUpTo(MaxTitle),
   tags : {<<>>} \cup {<<t>> : t \in TextsUpTo(1)}]

\* isRelevantJob(job, content) is called
isRelevantJobCall ==
  /\ calc.op = "none"
  /\ \E job \in RelevanceJobs, content \in TextsUpTo(1), relevantTags \in KeywordSets :
       calc' = [op |-> "isRelevantJob", job |-> job, content |-> content,
                relevantTags |-> relevantTags,
                relevant |-> isRelevantJob(job, keywordMatch(job, content, relevantTags))]
  /\ UNCHANGED <<mgrVars, ipfs>>

\* ---- the functions of Encryption and EACCConnector, called on their own ----
InitFunctions == \E processed \in SUBSET Jobs : InitWith(processed)

NextFunctions ==
  \/ hashToCidCall
  \/ recordDigestCall
  \/ getSessionKeyCall
  \/ decryptToUtf8Call
  \/ isRelevantJobCall

SpecFunctions == InitFunctions /\ [][NextFunctions]_vars

\* ==== the claims ============================================================
DiscCalls == {d \in DiscProcs : DiscInFlight(d)}
ActCalls == {a \in ActProcs : ActInFlight(a)}
Assigned(j) == ledger[j].state = 1 /\ ledger[j].worker = Me /\ ~ledger[j].resultHash
Delivering(j) == {a \in ActProcs : act[a].pc \in {"executeJob", "deliver_wait"}
                                    /\ act[a].cur = j}
Attempts == 1 .. Len(ipfs.log)
Served(k) == ipfs.log[k].served

\* C1: of two monitorNewJobs calls in flight at the same time, at most one has
\* submitted an application transaction (postThreadMessage) for any given job.
C1_OneApplicationPerJob ==
  \A d, e \in DiscCalls : d # e => disc[d].applied \cap disc[e].applied = {}

\* C2: for every job, the executions and deliveries in flight plus the confirmed
\* deliveries number at most one: deliverResult is not submitted again while an
\* earlier execution/delivery is in flight or after one was confirmed.
C2_DeliveredOnce ==
  \A j \in Jobs : Cardinality(Delivering(j)) + deliverOk[j] <= 1

\* C3: ticks of the same timer never overlap: at most one monitorNewJobs call and
\* at most one processActiveJobs call is in flight (the immediate calls of
\* startJobMonitoring included).
C3_SingleFlight == Cardinality(DiscCalls) <= 1 /\ Cardinality(ActCalls) <= 1

\* C4: when a poll, the only one in flight, reaches a record whose delivery
\* failed ('delivery_failed') while the ledger shows the job assigned to the
\* local wallet with no result, it makes another delivery attempt (it takes the
\* execute branch).
C4_FailedDeliveryRetried ==
  \A a \in ActProcs :
    (/\ ActCalls = {a}
     /\ act[a].pc = "getJob"
     /\ HeldStatus(a) = "delivery_failed"
     /\ Assigned(act[a].cur))
      => Branch(ledger[act[a].cur], HeldStatus(a)) = "execute"

\* C5: a multiple-applicant job the agent has applied to and the ledger has then
\* assigned to the local wallet (no result yet) still has its record in the
\* active set, where the next poll finds it and moves it to 'executing'.
C5_AssignedJobStaysActive ==
  \A j \in Jobs :
    (multipleApplicants[j] /\ applyOk[j] > 0 /\ Assigned(j)) => Has(activeJobs, j)

\* C6: applyForJob for a job whose creator has no published key fails (processJob
\* goes on with the next job) and changes no local state: no application or take
\* transaction is submitted, processedJobs and activeJobs stay as they are.
C6_MissingKey ==
  [][\A d \in DiscProcs :
       (disc[d].pc = "content" /\ ~publicKeys[DJob(d).id] /\ disc'[d] # disc[d])
         => /\ disc'[d] = NextJob(disc[d])
            /\ UNCHANGED <<applySent, takeCalls, takeSent, processedJobs,
                           activeJobs, applyOk, takeOk>>]_vars

C6_Witness == \E j \in Jobs : keyErr[j] > 0 /\ j \notin processedJobs /\ ~Has(activeJobs, j)

\* C7: processJob calls takeJob once for every confirmed application of a job
\* that is not multipleApplicants, in the step in which the confirmation arrives
\* (so automatically, in the same tick, and never before it), and never for a
\* multipleApplicants job; a take transaction is submitted only by such a call.
C7_TakeAfterApply ==
  /\ \A j \in Jobs : takeCalls[j] = IF multipleApplicants[j] THEN 0 ELSE applyOk[j]
  /\ \A j \in takeSent : takeCalls[j] > 0
  /\ \A d \in DiscProcs : disc[d].pc = "take_wait" => takeCalls[DJob(d).id] > 0

C7_Witness ==
  /\ \E d \in DiscProcs : disc[d].pc = "take_wait" /\ ~multipleApplicants[DJob(d).id]
  /\ \E j \in Jobs : multipleApplicants[j] /\ applyOk[j] > 0 /\ takeCalls[j] = 0

\* C8: the record of a single-applicant job exists only if the take transaction
\* was confirmed: when takeJob fails no record is created.
C8_RecordOnlyAfterTake ==
  \A j \in Jobs : (Has(activeJobs, j) /\ ~multipleApplicants[j]) => j \in takeOk

\* C9: getFromIpfs contacts the gateways in the order of the list, one after the
\* other; it goes on to the next gateway only after the current one timed out or
\* failed in transport (so never after a gateway served the bytes); it returns
\* what the first gateway that served the bytes gave, and contacts no gateway
\* after it.
C9_GatewayOrder ==
  /\ \A k \in Attempts : ipfs.log[k].gateway = k
  /\ \A k \in Attempts : k < Len(ipfs.log) => ~Served(k)
  /\ ipfs.pc = "fetch" => ipfs.g = Len(ipfs.log) + 1 /\ ipfs.g <= Len(ipfs.gateways)
  /\ ipfs.pc = "returned" => /\ ipfs.log # <<>>
                             /\ Served(Len(ipfs.log))
                             /\ ipfs.result = ipfs.log[Len(ipfs.log)].content

\* C10: getFromIpfs ends with the 'all gateways failed' error iff every gateway
\* of the list was contacted and none of them served the bytes.
C10_AllGatewaysFailed ==
  ipfs.pc \in {"fetch", "returned", "threw"} =>
    (ipfs.pc = "threw" <=> /\ Len(ipfs.log) = Len(ipfs.gateways)
                           /\ \A k \in Attempts : ~Served(k))

\* C11: when the bytes a gateway served fail decryption under the supplied key,
\* the call ends there with an error (that attempt is the last one): no further
\* gateway is contacted and no second decryption is attempted with the key.
C11_AuthFailureEndsRetrieval ==
  \A k \in Attempts :
    (Served(k) /\ ~ipfs.log[k].ok) => (k = Len(ipfs.log) /\ ipfs.pc = "threw")

Published == ipfs.plaintext # IdleIpfs.plaintext
RetrievedWithSessionKey == Published /\ ipfs.key # 0 /\ ipfs.key = ipfs.encryptionKey
OnlyStoredOpens == \A k \in Attempts : ipfs.log[k].ok => ipfs.log[k].stored
RoundTrip ==
  /\ ipfs.pc = "returned" => utf8String(ipfs.result.plain) = ipfs.plaintext
  /\ ipfs.pc = "threw" => \A k \in Attempts : ~ipfs.log[k].stored
  /\ \A k \in Attempts : ipfs.log[k].stored => (ipfs.pc = "returned" /\ k = Len(ipfs.log))

C13_RecordedDigestResolves ==
  calc.op = "recordDigest" => calc.resolved = calc.hash

\* C17: for every 32-byte digest d, hashToCid(hashToCid(d)) = hashToCid(d).
C17_HashToCidIdempotent ==
  (calc.op = "hashToCid" /\ calc.hash.len = 32) => calc.again = calc.cid

C17_Witness ==
  calc.op = "hashToCid" /\ calc.hash.len = 32 /\ calc.hash.prefixed /\ startsWithQm(calc.cid)

\* C14: two parties A and B who each derive the session key of the same job, A
\* with its wallet and B's public key and B with its wallet and A's public key,
\* obtain the same key.
C14_SessionKeySymmetric ==
  calc.op = "getSessionKey" => calc.keyOfA = calc.keyOfB

Sealed == calc.op = "decryptToUtf8"
Untouched == Sealed /\ calc.mutation = "none" /\ calc.openKey = calc.key

\* C15 (as amended): for every well-formed plaintext P and 32-byte key K,
\* decryptToUtf8(encryptUtf8Data(P, K), K) returns P.
C15_SealOpen ==
  (Untouched /\ WellFormed(calc.data)) => (calc.opened.ok /\ calc.opened.text = calc.data)

\* C15 (as stated): the same for every string P, well-formed or not.
C15_SealOpenAnyString ==
  Untouched => (calc.opened.ok /\ calc.opened.text = calc.data)

C15_Witness ==
  Untouched /\ calc.data = <<"hi", "lo">> /\ calc.opened.text = <<"hi", "lo">>

\* C16: decryptToUtf8 of an envelope with another key than the one that sealed
\* it, or of an envelope whose ciphertext or auth tag was changed, raises an
\* error and returns no text.
C16_FailsClosed ==
  (Sealed /\ (calc.openKey # calc.key \/ calc.mutation # "none"))
    => (~calc.opened.ok /\ calc.opened.text = <<>>)

C16_Witness ==
  /\ Sealed /\ calc.openKey # calc.key /\ calc.mutation = "none" /\ calc.data # <<>>
  /\ ~calc.opened.ok

SameLetter(x, y) == x = y \/ {x, y} = {"b", "B"}
OccursIn(keyword, str) ==
  \E i \in 0 .. Len(str) :
    /\ i + Len(keyword) <= Len(str)
    /\ \A k \in 1 .. Len(keyword) : SameLetter(str[i + k], keyword[k])

\* C18: isRelevantJob(job, content) is true iff the job's state is 0, its id is
\* not in processedJobs, and some configured keyword occurs, letter case aside,
\* in the title, in one of the tags or in the content.
C18_RelevantIff ==
  calc.op = "isRelevantJob" =>
    (calc.relevant <=>
       /\ calc.job.state = 0
       /\ calc.job.id \notin processedJobs
       /\ \E keyword \in calc.relevantTags :
            \/ OccursIn(keyword, calc.job.title)
            \/ \E k \in 1 .. Len(calc.job.tags) : OccursIn(keyword, calc.job.tags[k])
            \/ OccursIn(keyword, calc.content))

C18_Witness ==
  /\ calc.op = "isRelevantJob" /\ calc.relevant
  /\ calc.job.title = <<"x", "B">> /\ calc.relevantTags = {<<"b">>}
  /\ calc.job.tags = <<>> /\ calc.content = <<>>

\* ---- C19, C20: processActiveJobs against the ledger it reads ----

\* the step in which poll a's getJob settles and its branch runs
GetJobStep(a) ==
  /\ act[a].pc = "getJob"
  /\ act'[a].pc # "getJob" \/ act'[a].cur # act[a].cur

BecomesExecuting(j) ==
  /\ Has(activeJobs', j) /\ StatusOf(activeJobs', j) = "executing"
  /\ ~Has(activeJobs, j) \/ StatusOf(activeJobs, j) # "executing"

\* C19: a record moves to 'executing' only in a poll whose getJob returned, in
\* that very step, a ledger entry with worker = local actor, state 1 and no
\* result; and a poll goes on to executeJob only from such a read.
C19_ExecuteOnlyWhenAssigned ==
  [][/\ \A j \in Jobs : BecomesExecuting(j) =>
          /\ lastGetJob' = "returned"
          /\ Assigned(j)
          /\ \E a \in ActProcs : GetJobStep(a) /\ act[a].cur = j
                                   /\ act'[a].pc = "executeJob"
     /\ \A a \in ActProcs : (GetJobStep(a) /\ act'[a].pc = "executeJob") =>
          /\ Assigned(act[a].cur)
          /\ StatusOf(activeJobs', act[a].cur) = "executing"]_vars

C19_Witness ==
  \E a \in ActProcs :
    /\ act[a].pc = "executeJob"
    /\ Has(activeJobs, act[a].cur)
    /\ StatusOf(activeJobs, act[a].cur) = "executing"
    /\ Assigned(act[a].cur)

\* C20: when a poll's getJob returns a ledger entry whose worker is not the
\* local actor or whose state is above 1, the job is out of the active set
\* when that iteration of the poll ends.
C20_ForeignOrClosedRemoved ==
  [][\A a \in ActProcs :
       (/\ GetJobStep(a)
        /\ lastGetJob' = "returned"
        /\ ledger[act[a].cur].worker # Me \/ ledger[act[a].cur].state > 1)
         => ~Has(activeJobs', act[a].cur)]_vars

\* a job this agent took and that has since closed is gone from the active set
C20_Witness ==
  /\ lastGetJob = "returned"
  /\ \E j \in takeOk : ledger[j].state > 1 /\ ledger[j].worker = Me
                         /\ ~Has(activeJobs, j)

\* ---- C21..C30 ---------------------------------------------------------------

\* the step in which discovery call d's getJobContent settles and processJob
\* decides on the job
ProcessJobStep(d) == disc[d].pc = "content" /\ disc'[d] # disc[d]

\* C21: when processJob evaluates a job whose id is already in processedJobs,
\* it goes on to the next job without submitting an application or a take
\* transaction, and processedJobs and activeJobs stay as they are.
C21_RediscoveryIdempotent ==
  [][\A d \in DiscProcs :
       (ProcessJobStep(d) /\ DJob(d).id \in processedJobs) =>
         /\ disc'[d] = NextJob(disc[d])
         /\ applySent' = applySent /\ takeSent' = takeSent /\ takeCalls' = takeCalls
         /\ applyOk' = applyOk /\ takeOk' = takeOk
         /\ processedJobs' = processedJobs
         /\ activeJobs' = activeJobs]_vars

\* a later tick meets, still listed as open, a job an earlier tick has applied for
C21_Witness ==
  \E d \in DiscProcs :
    /\ disc[d].pc = "content"
    /\ DJob(d).id \in processedJobs
    /\ DJob(d).state = 0
    /\ applyOk[DJob(d).id] > 0

\* a step of discovery call d inside processJob
OwnDiscStep(d) ==
  /\ disc[d].pc \in {"content", "apply_wait", "take_wait"}
  /\ disc'[d] # disc[d]

\* a step of active-jobs call a (a Map.delete by another call only lowers idx)
OwnActStep(a) ==
  /\ ActInFlight(a)
  /\ \/ act'[a].pc # act[a].pc
     \/ act'[a].cur # act[a].cur
     \/ act'[a].idx > act[a].idx

\* C22: however the processing of one job ends (thrown error, false return or
\* success), the tick goes on: a discovery tick ends only after the last job
\* of its list, and otherwise turns to the next job of the list; an
\* active-jobs tick ends only when no record of another job lies ahead in the
\* Map, and otherwise turns to a record of the Map.
C22_TickNotAborted ==
  [][/\ \A d \in DiscProcs : OwnDiscStep(d) =>
          \/ disc'[d].jobs = disc[d].jobs /\ DiscInFlight(d)'
          \/ Len(disc[d].jobs) > 1 /\ disc'[d].jobs = Tail(disc[d].jobs)
                                   /\ disc'[d].pc = "content"
          \/ Len(disc[d].jobs) = 1 /\ disc'[d].pc = "done"
     /\ \A a \in ActProcs : OwnActStep(a) =>
          /\ act'[a].pc = "done" =>
               \A k \in (act[a].idx + 1) .. Len(activeJobs) : activeJobs[k].id = act[a].cur
          /\ act'[a].pc = "getJob" => Has(activeJobs', act'[a].cur)
          /\ act'[a].pc \in {"executeJob", "deliver_wait"} => act'[a].cur = act[a].cur]_vars

\* a delivery failed for the first record and the tick has gone on to the second
C22_Witness ==
  \E a \in ActProcs :
    /\ act[a].pc = "getJob" /\ act[a].idx = 2
    /\ Len(activeJobs) = 2
    /\ activeJobs[1].status = "delivery_failed"
    /\ deliverOk[activeJobs[1].id] = 0

\* stopJobMonitoring has run since the monitoring was started
Stopped ==
  starts > 0 /\ jobMonitoringInterval = 0 /\ activeJobsMonitoringInterval = 0

NewDiscTick == \E d \in DiscProcs : disc[d].pc = "idle" /\ disc'[d].pc # "idle"
NewActTick == \E a \in ActProcs : act[a].pc = "idle" /\ act'[a].pc # "idle"

\* C23: once the shutdown has run stopJobMonitoring, no interval timer is left
\* and no new call of monitorNewJobs or processActiveJobs is made.
C23_ShutdownStopsTicks ==
  [][Stopped => (timers = {} /\ ~NewDiscTick /\ ~NewActTick)]_vars

\* the shutdown came while a discovery tick was in flight and a record was active
C23_Witness ==
  /\ Stopped
  /\ timers = {}
  /\ activeJobs # <<>>
  /\ \E d \in DiscProcs : DiscInFlight(d)
  /\ \E d \in DiscProcs : disc[d].pc = "idle"
  /\ \E a \in ActProcs : act[a].pc = "idle"

\* C24: once applyForJob has failed for a job because its creator has no
\* published key, and while the directory reports none, no discovery call that
\* runs after the failing one has ended calls applyForJob for that job again.
C24_MissingKeyNotRetried ==
  [][\A d \in DiscProcs :
       (/\ ProcessJobStep(d)
        /\ \A e \in DiscProcs \ {d} : ~DiscInFlight(e)
        /\ keyErr[DJob(d).id] > 0
        /\ ~publicKeys[DJob(d).id])
         => keyErr'[DJob(d).id] = keyErr[DJob(d).id]]_vars

Confirmed == {j \in Jobs : applyOk[j] > 0} \cup takeOk

ActiveWithinProcessed ==
  /\ \A k \in 1 .. Len(activeJobs) : activeJobs[k].id \in processedJobs
  /\ processedJobs \subseteq Confirmed

\* C25: in every reachable state every id with a record in activeJobs is in
\* processedJobs and every id in processedJobs has a confirmed application or
\* take transaction; no step removes an id from processedJobs.
C25_ActiveWithinProcessed ==
  [][/\ ActiveWithinProcessed
     /\ ActiveWithinProcessed'
     /\ processedJobs \subseteq processedJobs']_vars

\* both jobs are processed, one has a record and the record of the other is gone
C25_Witness ==
  /\ processedJobs = Jobs
  /\ Len(activeJobs) = 1
  /\ takeOk # {}

PastStarted(m, j) == Has(m, j) /\ StatusOf(m, j) \in {"executing", "delivered", "delivery_failed"}

\* C26: the record of a job that has reached 'executing', 'delivered' or
\* 'delivery_failed' is never 'started' after a step.
C26_StatusForwardOnly ==
  [][\A j \in Jobs :
       PastStarted(activeJobs, j) => ~(Has(activeJobs', j) /\ StatusOf(activeJobs', j) = "started")]_vars

Executing(j) == Has(activeJobs, j) /\ StatusOf(activeJobs, j) = "executing"

\* C27: a record that is 'executing' is, some time later, not 'executing' any
\* more (it is 'delivered' or 'delivery_failed', or it is removed).
C27_ExecutingEnds == \A j \in Jobs : Executing(j) ~> ~Executing(j)

\* C28: when the latest call was stopJobMonitoring (both handles are null after
\* at least one start) no interval timer is scheduled, however many times
\* startJobMonitoring was called before; and in such a state nothing but a new
\* start changes the timers or the handles (a second stop is a no-op).
C28_NoTimerAfterStop ==
  [][/\ Stopped' => timers' = {}
     /\ (Stopped /\ starts' = starts) => (timers' = timers /\ Stopped')]_vars

\* C29: no step of a processActiveJobs call puts a record into activeJobs: a
\* record appears only in the step of a processJob call for that job, and a
\* call whose record was removed while its execution or delivery was in flight
\* leaves activeJobs as it is when the execution or the delivery completes.
C29_UpdateNeverCreates ==
  [][/\ \A j \in Jobs : (~Has(activeJobs, j) /\ Has(activeJobs', j)) =>
          \E d \in DiscProcs : OwnDiscStep(d) /\ DJob(d).id = j
     /\ \A a \in ActProcs :
          (OwnActStep(a) /\ act[a].pc \in {"executeJob", "deliver_wait"}
             /\ ~Has(activeJobs, act[a].cur))
            => activeJobs' = activeJobs]_vars

\* the record of a job was removed by another poll while its delivery is in flight
C29_Witness ==
  \E a \in ActProcs :
    /\ act[a].pc = "deliver_wait"
    /\ ~Has(activeJobs, act[a].cur)
    /\ act[a].cur \in takeOk

\* the endpoint contacted by the k-th attempt of the call
Endpoint(k) == ipfs.gateways[ipfs.log[k].gateway]

DistinctGateways == {ipfs.gateways[g] : g \in 1 .. Len(ipfs.gateways)}

\* C30: within one getFromIpfs call no endpoint is contacted twice, so the call
\* makes at most as many attempts as the configured list has distinct gateways.
C30_EachGatewayOnce ==
  /\ \A k, l \in 1 .. Len(ipfs.log) : k # l => Endpoint(k) # Endpoint(l)
  /\ Len(ipfs.log) <= Cardinality(DistinctGateways)

====
